---- MODULE Spec2Model ----
(***************************************************************************)
(* State-machine model of the med-analyzer frontend                        *)
(* (docu-health-assist): the top-level screen (pages/Index.tsx), the       *)
(* document-upload workflow (components/FileUpload.tsx, second component   *)
(* of the file), the blood-report checker                                  *)
(* (components/BloodReportChecker.tsx), manual entry                       *)
(* (components/ManualInput.tsx), the chat panel (ChatBot, in               *)
(* components/InsightsBar.tsx) and the API adapter (services/api.ts).      *)
(*                                                                         *)
(* One step of the model is one run of an event handler up to its next     *)
(* await, or the continuation of a handler after an awaited backend call   *)
(* settles.  The browser runs these one at a time; the backend answers in  *)
(* any order.                                                              *)
(***************************************************************************)
EXTENDS Integers, Sequences, FiniteSets, TLC

VARIABLES
    activeTab,       \* Index.activeTab
    analysisData,    \* Index.analysisData
    bloodReportData, \* Index.bloodReportData
    isLoading,       \* Index.isLoading (shared busy flag)
    error,           \* Index.error
    fu_selectedFile,   \* FileUpload.selectedFile
    fu_extractedText,  \* FileUpload.extractedText
    fu_showTextEditor, \* FileUpload.showTextEditor
    fu_icdCodes,       \* FileUpload.icdCodes
    br_selectedFile,   \* BloodReportChecker.selectedFile
    mi_inputText,      \* ManualInput.inputText
    mi_icdCodes,       \* ManualInput.icdCodes
    mi_timers,         \* ManualInput: pending debounce timers (the text each saw)
    mi_lookups,        \* ManualInput: analyzeText calls awaited by its handlers
    mi_issued,         \* ManualInput: number of analyzeText calls started
    pending,         \* handler invocations suspended at an await on the backend
    ops,             \* number of handler invocations that reached the backend
    netCalls,        \* number of HTTP requests issued so far
    chat_isOpen,         \* ChatBot.isOpen
    chat_messages,       \* ChatBot.messages
    chat_inputText,      \* ChatBot.inputText
    chat_isLoading,      \* ChatBot.isLoading
    chat_hasNewResponse, \* ChatBot.hasNewResponse
    chat_timers,         \* pending setTimeout callbacks clearing hasNewResponse
    chat_pending,        \* ChatBot send handlers suspended on chatApi.sendMessage
    api_fn,          \* adapter function last called (services/api.ts)
    api_outcomes,    \* what the backend did with the requests of that call
    api_result       \* what the call returned or threw

indexVars == <<activeTab, analysisData, bloodReportData, isLoading, error>>
fuVars == <<fu_selectedFile, fu_extractedText, fu_showTextEditor, fu_icdCodes>>
brVars == <<br_selectedFile>>
miVars == <<mi_inputText, mi_icdCodes, mi_timers, mi_lookups, mi_issued>>
netVars == <<pending, ops, netCalls>>
uiVars == <<indexVars, fuVars, brVars, miVars, netVars>>
chatVars == <<chat_isOpen, chat_messages, chat_inputText, chat_isLoading,
              chat_hasNewResponse, chat_timers, chat_pending>>
adapterVars == <<api_fn, api_outcomes, api_result>>
\* state the components of the screen never touch
otherVars == <<chatVars, adapterVars>>
vars == <<uiVars, chatVars, adapterVars>>

----------------------------------------------------------------------------
(* Bounds of the model *)

\* handler invocations that may reach the backend in one run
MaxOps == 2
\* chat turns sent by the user in one run
MaxSends == 4
\* analyzeText calls ManualInput may start in one run
MaxLookups == 2

----------------------------------------------------------------------------
(* JavaScript values *)

Null == [t |-> "null"]
Undefined == [t |-> "undefined"]
Str(s) == [t |-> "str", v |-> s]
Num(n) == [t |-> "num", v |-> n]
Arr(s) == [t |-> "arr", v |-> s]
\* a string kept as a sequence of characters (or longer pieces)
Text(s) == [t |-> "text", v |-> s]

\* JavaScript truthiness, as used by `||`, `&&` and `!`
Truthy(x) ==
    CASE x.t = "null" -> FALSE
      [] x.t = "undefined" -> FALSE
      [] x.t = "str" -> x.v # ""
      [] x.t = "num" -> x.v # 0
      [] x.t = "bool" -> x.v
      [] x.t = "text" -> x.v # <<>>
      [] OTHER -> TRUE

\* a || b
OrElse(a, b) == IF Truthy(a) THEN a ELSE b

\* Texts are sequences of characters, so that trim() can be computed.
IsSpace(c) == c \in {" ", "\t", "\n"}

RECURSIVE TrimStart(_)
TrimStart(s) ==
    IF s = <<>> THEN s
    ELSE IF IsSpace(Head(s)) THEN TrimStart(Tail(s)) ELSE s

RECURSIVE TrimEnd(_)
TrimEnd(s) ==
    IF s = <<>> THEN s
    ELSE IF IsSpace(s[Len(s)]) THEN TrimEnd(SubSeq(s, 1, Len(s) - 1)) ELSE s

\* String.prototype.trim
Trim(s) == TrimEnd(TrimStart(s))

----------------------------------------------------------------------------
(* Files *)

MaxFileSize == 10 * 1024 * 1024

\* FileUpload.acceptedTypes (drop path)
acceptedTypes ==
    {"application/pdf", "image/jpeg", "image/jpg", "image/png", "image/gif"}

\* allowedTypes of FileUpload.handleFileInputChange (browse path)
allowedTypes == {"application/pdf", "image/jpeg", "image/png", "image/gif"}

\* MIME types and sizes of the files the user picks in the model
FileTypes == {"application/pdf", "image/jpg", "text/plain"}
FileSizes == {MaxFileSize, MaxFileSize + 1}
Files == [t : {"file"}, type : FileTypes, size : FileSizes]

\* texts returned by extraction or typed into an editor
Texts == {<<" ">>, <<" ", "a">>}

----------------------------------------------------------------------------
(* Backend outcomes, as axios reports them to the adapter *)

\* a 2xx response carrying `data`
Ok(data) == [kind |-> "ok", data |-> data]
\* a response with a bad status (axios error.response)
BadStatus(status, detail) ==
    [kind |-> "response", status |-> status, detail |-> detail]
\* no response received (axios error.request)
NoResponse == [kind |-> "request"]
\* an exception raised inside the adapter's try block (new Error(message))
JsError(message) == [kind |-> "error", message |-> message]

Failures == {BadStatus(500, Str("Internal error"))}

\* what a function call produced
Return(v) == [thrown |-> FALSE, value |-> v]
Throw(e) == [thrown |-> TRUE, value |-> e]

\* services/api.ts handleError: the object it throws
handleError(e) ==
    CASE e.kind = "response" ->
           [message |-> OrElse(e.detail, Str("An error occurred")),
            status |-> e.status]
      [] e.kind = "request" ->
           [message |-> Str("Server not responding. Please try again later."),
            status |-> 503]
      [] OTHER ->
           [message |-> OrElse(e.message, Str("An unexpected error occurred")),
            status |-> 500]

\* documentApi.uploadPdf
uploadPdf(o) ==
    IF o.kind = "ok" THEN Return(o.data) ELSE Throw(handleError(o))

\* response bodies of POST /pdf/upload
UploadDatas == {[t |-> "obj", text |-> x] : x \in Texts}

\* response bodies of POST /summary/structured-analysis
StructuredDatas ==
    {[t |-> "obj", success |-> [t |-> "bool", v |-> TRUE],
      primary_diagnosis |-> Str("flu"),
      prescribed_medication |-> Arr(<<"aspirin">>),
      followup_instructions |-> Str("rest"),
      medical_entities |-> Arr(<<"fever">>), error |-> Undefined],
     [t |-> "obj", success |-> [t |-> "bool", v |-> FALSE],
      primary_diagnosis |-> Undefined, prescribed_medication |-> Undefined,
      followup_instructions |-> Undefined, medical_entities |-> Undefined,
      error |-> Str("Text too short")]}

\* response bodies of POST /icd/analyze
IcdDatas == {[t |-> "obj", icd_codes |-> Arr(<<"I10">>)],
             [t |-> "obj", icd_codes |-> Undefined]}

\* error.message of the Error a failed request rejects with (AxiosError)
axiosMessage(e) ==
    CASE e.kind = "response" ->
           Str("Request failed with status code " \o ToString(e.status))
      [] e.kind = "request" -> Str("Network Error")
      [] OTHER -> e.message

\* the default object documentApi.analyzeText returns from its catch block;
\* what it catches is always an Error, whose message it reports
analyzeTextFallback(e) ==
    [t |-> "obj", success |-> [t |-> "bool", v |-> FALSE],
     primary_diagnosis |-> Str(""), prescribed_medication |-> Arr(<<>>),
     followup_instructions |-> Str(""), medical_entities |-> Arr(<<>>),
     icd_codes |-> Arr(<<>>), error |-> axiosMessage(e)]

\* obj.field, reading a property of an object (undefined when absent)
Get(obj, field) ==
    IF obj.t = "obj" /\ field \in DOMAIN obj THEN obj[field] ELSE Undefined

\* documentApi.analyzeText, given the outcomes of its two requests (the ICD
\* request is only issued when the first one succeeded); it never throws
analyzeText(structured, icd) ==
    IF structured.kind = "ok" /\ icd.kind = "ok" /\ icd.data.t = "obj"
    THEN Return([t |-> "obj",
                 success |-> Get(structured.data, "success"),
                 primary_diagnosis |-> Get(structured.data, "primary_diagnosis"),
                 prescribed_medication |->
                     Get(structured.data, "prescribed_medication"),
                 followup_instructions |->
                     Get(structured.data, "followup_instructions"),
                 medical_entities |-> Get(structured.data, "medical_entities"),
                 icd_codes |-> OrElse(Get(icd.data, "icd_codes"), Arr(<<>>)),
                 error |-> Get(structured.data, "error")])
    ELSE Return(analyzeTextFallback(
             IF structured.kind # "ok" THEN structured
             ELSE IF icd.kind # "ok" THEN icd
             ELSE JsError(Str(
                      "Cannot read properties of null (reading 'icd_codes')"))))

\* getMedicalAnalysis without its `!response.data.success` check: whatever a
\* 2xx structured answer says is returned as a result
getMedicalAnalysis_noSuccessCheck(structured, icd) ==
    IF structured.kind # "ok" THEN Throw(handleError(structured))
    ELSE IF icd.kind # "ok" THEN Throw(handleError(icd))
    ELSE Return([t |-> "obj",
                 success |-> [t |-> "bool", v |-> TRUE],
                 primary_diagnosis |->
                     OrElse(Get(structured.data, "primary_diagnosis"), Str("")),
                 prescribed_medication |->
                     OrElse(Get(structured.data, "prescribed_medication"),
                            Arr(<<>>)),
                 followup_instructions |->
                     OrElse(Get(structured.data, "followup_instructions"),
                            Str("")),
                 medical_entities |->
                     OrElse(Get(structured.data, "medical_entities"), Arr(<<>>)),
                 icd_codes |-> OrElse(Get(icd.data, "icd_codes"), Arr(<<>>)),
                 error |-> Get(structured.data, "error")])

\* documentApi.getMedicalAnalysis, given the outcomes of its two requests
getMedicalAnalysis(structured, icd) ==
    IF structured.kind # "ok" THEN Throw(handleError(structured))
    ELSE IF icd.kind # "ok" THEN Throw(handleError(icd))
    ELSE IF ~Truthy(structured.data)
            \/ ~Truthy(Get(structured.data, "success"))
    THEN Throw(handleError(JsError(
             OrElse(Get(structured.data, "error"), Str("Analysis failed")))))
    ELSE IF icd.data.t # "obj"
    THEN Throw(handleError(JsError(
             Str("Cannot read properties of null (reading 'icd_codes')"))))
    ELSE Return([t |-> "obj",
                 success |-> [t |-> "bool", v |-> TRUE],
                 primary_diagnosis |->
                     OrElse(Get(structured.data, "primary_diagnosis"), Str("")),
                 prescribed_medication |->
                     OrElse(Get(structured.data, "prescribed_medication"),
                            Arr(<<>>)),
                 followup_instructions |->
                     OrElse(Get(structured.data, "followup_instructions"),
                            Str("")),
                 medical_entities |->
                     OrElse(Get(structured.data, "medical_entities"), Arr(<<>>)),
                 icd_codes |-> OrElse(Get(icd.data, "icd_codes"), Arr(<<>>)),
                 error |-> Get(structured.data, "error")])

\* response bodies of POST /blood/upload-blood-report
BloodDatas ==
    {[t |-> "obj", tests |-> Arr(<<"Hb">>),
      summary |-> [t |-> "obj", normalCount |-> Num(1),
                   abnormalCount |-> Num(0), criticalCount |-> Num(0)],
      interpretation |-> Str("ok"), recommendations |-> Arr(<<"rest">>)],
     [t |-> "obj", tests |-> Arr(<<>>), summary |-> Null,
      interpretation |-> Undefined, recommendations |-> Undefined],
     [t |-> "obj", tests |-> Undefined, summary |-> Undefined,
      interpretation |-> Undefined, recommendations |-> Undefined],
     Str("<html>")}

\* typeof x === 'object'
TypeofObject(x) == x.t \in {"obj", "arr", "null"}

\* bloodApi.uploadReport
uploadReport(o) ==
    IF o.kind # "ok" THEN Throw(handleError(o))
    ELSE IF ~Truthy(o.data) \/ ~TypeofObject(o.data)
    THEN Throw(handleError(JsError(Str("Invalid response format from server"))))
    ELSE Return(o.data)

----------------------------------------------------------------------------
(* Initial state: Index, the three input components and ChatBot as mounted *)

\* the greeting ChatBot.messages starts with
greeting ==
    [text |-> <<"Hello! I'm your AI medical assistant.">>, isUser |-> FALSE]

Init ==
    /\ activeTab = "upload"
    /\ analysisData = Null
    /\ bloodReportData = Null
    /\ isLoading = FALSE
    /\ error = ""
    /\ fu_selectedFile = Null
    /\ fu_extractedText = <<>>
    /\ fu_showTextEditor = FALSE
    /\ fu_icdCodes = <<>>
    /\ br_selectedFile = Null
    /\ mi_inputText = <<>>
    /\ mi_icdCodes = <<>>
    /\ mi_timers = {}
    /\ mi_lookups = {}
    /\ mi_issued = 0
    /\ pending = {}
    /\ ops = 0
    /\ netCalls = 0
    /\ chat_isOpen = FALSE
    /\ chat_messages = <<greeting>>
    /\ chat_inputText = <<>>
    /\ chat_isLoading = FALSE
    /\ chat_hasNewResponse = FALSE
    /\ chat_timers = 0
    /\ chat_pending = {}
    /\ api_fn = "none"
    /\ api_outcomes = <<>>
    /\ api_result = Null

----------------------------------------------------------------------------
(* Index *)

\* Index render: the input card (tabs) is shown, not a results view
InputView == analysisData.t = "null" /\ bloodReportData.t = "null"

\* the input component of tab `tab` is mounted and can receive events
Mounted(tab) == InputView /\ activeTab = tab

\* a component that unmounts loses its state; the handlers it left suspended
\* keep running, but their local setState calls no longer have any effect
Orphaned(reqs) == {[r EXCEPT !.live = FALSE] : r \in reqs}

\* every input component is in its freshly mounted state; the calls a
\* component left suspended lose their component
LocalStateReset ==
    /\ fu_selectedFile' = Null
    /\ fu_extractedText' = <<>>
    /\ fu_showTextEditor' = FALSE
    /\ fu_icdCodes' = <<>>
    /\ br_selectedFile' = Null
    /\ mi_inputText' = <<>>
    /\ mi_icdCodes' = <<>>
    /\ mi_lookups' = Orphaned(mi_lookups)
    /\ UNCHANGED mi_issued

\* the debounce effect of ManualInput at mount and unmount: mounting runs
\* the effect for the empty text, unmounting runs its cleanup
mi_timersAfterMount(mounted) == IF mounted THEN {<<>>} ELSE {}

\* a handler invocation that is about to await its first request;
\* beforeReset records that New Analysis was pressed while the invocation
\* was suspended (the code keeps no such mark)
NewRequest(comp, kind, stage, file, text) ==
    [id |-> ops + 1, comp |-> comp, kind |-> kind, stage |-> stage,
     live |-> TRUE, beforeReset |-> FALSE, file |-> file, text |-> text,
     data |-> Null]

\* the suspended invocations, once New Analysis has been pressed
AfterReset(reqs) == {[r EXCEPT !.beforeReset = TRUE] : r \in reqs}

\* Index.handleError, called by a component as onError(message), when that
\* is all the calling handler does
handleErrorOnly(message) ==
    /\ error' = message
    /\ isLoading' = FALSE
    /\ UNCHANGED <<activeTab, analysisData, bloodReportData, fuVars, brVars,
                   miVars, netVars>>

\* Tabs onValueChange={setActiveTab}: the content of the tab left is unmounted
setActiveTab(tab) ==
    /\ InputView
    /\ tab # activeTab
    /\ activeTab' = tab
    /\ LocalStateReset
    /\ mi_timers' = mi_timersAfterMount(tab = "manual")
    /\ pending' = Orphaned(pending)
    /\ UNCHANGED <<analysisData, bloodReportData, isLoading, error, ops,
                   netCalls, otherVars>>

\* resetAnalysis without its setError('')
resetAnalysis_keepsError ==
    /\ ~InputView
    /\ analysisData' = Null
    /\ bloodReportData' = Null
    /\ mi_timers' = mi_timersAfterMount(activeTab = "manual")
    /\ pending' = AfterReset(pending)
    /\ UNCHANGED <<activeTab, isLoading, error, fuVars, brVars, mi_inputText,
                   mi_icdCodes, mi_lookups, mi_issued, ops, netCalls,
                   otherVars>>

\* Index.resetAnalysis, the New Analysis button of a results view
resetAnalysis ==
    /\ ~InputView
    /\ analysisData' = Null
    /\ bloodReportData' = Null
    /\ error' = ""
    /\ mi_timers' = mi_timersAfterMount(activeTab = "manual")
    /\ pending' = AfterReset(pending)
    /\ UNCHANGED <<activeTab, isLoading, fuVars, brVars, mi_inputText,
                   mi_icdCodes, mi_lookups, mi_issued, ops, netCalls,
                   otherVars>>

\* Index.handleAnalysisComplete: the results view replaces the input card
handleAnalysisComplete(data, r) ==
    /\ analysisData' = data
    /\ isLoading' = FALSE
    /\ LocalStateReset
    /\ mi_timers' = mi_timersAfterMount(FALSE)
    /\ pending' = Orphaned(pending \ {r})
    /\ UNCHANGED <<activeTab, bloodReportData, error, ops, netCalls>>

\* Index.handleBloodReportComplete
handleBloodReportComplete(data, r) ==
    /\ bloodReportData' = data
    /\ isLoading' = FALSE
    /\ LocalStateReset
    /\ mi_timers' = mi_timersAfterMount(FALSE)
    /\ pending' = Orphaned(pending \ {r})
    /\ UNCHANGED <<activeTab, analysisData, error, ops, netCalls>>

\* error.message || fallback, as the components' catch blocks compute it
messageOf(e, fallback) == OrElse(e.message, Str(fallback)).v

----------------------------------------------------------------------------
(* FileUpload *)

\* !acceptedTypes.includes(file.type)
fu_typeRejected(file) == file.type \notin acceptedTypes

\* file.size > 10 * 1024 * 1024
fu_sizeRejected(file) == file.size > MaxFileSize

\* FileUpload.handleFileSelection
fu_handleFileSelection(file) ==
    IF fu_typeRejected(file)
    THEN handleErrorOnly("Please upload a PDF or image file (JPEG, PNG, GIF)")
    ELSE IF fu_sizeRejected(file)
    THEN handleErrorOnly("File size must be less than 10MB")
    ELSE /\ fu_selectedFile' = file
         /\ isLoading' = TRUE
         /\ pending' = pending \cup
                {NewRequest("upload", "extract", "upload", file, <<>>)}
         /\ ops' = ops + 1
         /\ netCalls' = netCalls + 1
         /\ UNCHANGED <<activeTab, analysisData, bloodReportData, error,
                        fu_extractedText, fu_showTextEditor, fu_icdCodes,
                        brVars, miVars>>

\* the file passes handleFileSelection's checks
fu_passes(file) == ~fu_typeRejected(file) /\ ~fu_sizeRejected(file)

\* FileUpload.handleDrop: the drop zone is rendered while the editor is not
fu_handleDrop(file) ==
    /\ Mounted("upload")
    /\ ~fu_showTextEditor
    /\ fu_passes(file) => ops < MaxOps
    /\ fu_handleFileSelection(file)
    /\ UNCHANGED otherVars

\* FileUpload.handleFileInputChange: the file input and its button are
\* disabled while isLoading
fu_handleFileInputChange(file) ==
    /\ Mounted("upload")
    /\ ~fu_showTextEditor
    /\ ~isLoading
    /\ (fu_passes(file) /\ file.type \in allowedTypes) => ops < MaxOps
    /\ IF file.size > MaxFileSize
       THEN handleErrorOnly("File size exceeds 10MB limit")
       ELSE IF file.type \notin allowedTypes
       THEN handleErrorOnly(
                "Invalid file type. Please upload a PDF or image file.")
       ELSE fu_handleFileSelection(file)
    /\ UNCHANGED otherVars

\* FileUpload.handleFileSelection resumes after `await documentApi.uploadPdf`
fu_uploadSettled(r, o) ==
    /\ r \in pending /\ r.kind = "extract" /\ r.stage = "upload"
    /\ LET res == uploadPdf(o) IN
       IF res.thrown
       THEN /\ error' = messageOf(res.value, "Failed to process file")
            /\ isLoading' = FALSE
            /\ pending' = pending \ {r}
            /\ UNCHANGED <<netCalls, fuVars>>
       ELSE /\ IF r.live
               THEN /\ fu_extractedText' = res.value.text
                    /\ fu_showTextEditor' = TRUE
               ELSE UNCHANGED <<fu_extractedText, fu_showTextEditor>>
            /\ pending' = (pending \ {r}) \cup
                   {[r EXCEPT !.stage = "structured", !.file = Null,
                              !.text = res.value.text]}
            /\ netCalls' = netCalls + 1
            /\ UNCHANGED <<error, isLoading, fu_selectedFile, fu_icdCodes>>
    /\ UNCHANGED <<activeTab, analysisData, bloodReportData, brVars, miVars,
                   ops, otherVars>>

\* icd_codes && icd_codes.length > 0
hasCodes(result) ==
    Truthy(Get(result, "icd_codes")) /\ Len(Get(result, "icd_codes").v) > 0

\* handleFileSelection awaits analyzeText, whose first request settles
fu_lookupStructuredSettled(r, o) ==
    /\ r \in pending /\ r.kind = "extract" /\ r.stage = "structured"
    /\ IF o.kind = "ok"
       THEN /\ pending' = (pending \ {r}) \cup
                   {[r EXCEPT !.stage = "icd", !.data = o]}
            /\ netCalls' = netCalls + 1
            /\ UNCHANGED isLoading
       ELSE /\ pending' = pending \ {r}
            /\ isLoading' = FALSE
            /\ UNCHANGED netCalls
    /\ UNCHANGED <<activeTab, analysisData, bloodReportData, error, fuVars,
                   brVars, miVars, ops, otherVars>>

\* handleFileSelection resumes after `await documentApi.analyzeText`
fu_lookupSettled(r, o) ==
    /\ r \in pending /\ r.kind = "extract" /\ r.stage = "icd"
    /\ LET analysisResult == analyzeText(r.data, o).value IN
       IF r.live /\ hasCodes(analysisResult)
       THEN fu_icdCodes' = analysisResult.icd_codes.v
       ELSE UNCHANGED fu_icdCodes
    /\ isLoading' = FALSE
    /\ pending' = pending \ {r}
    /\ UNCHANGED <<activeTab, analysisData, bloodReportData, error,
                   fu_selectedFile, fu_extractedText, fu_showTextEditor,
                   brVars, miVars, ops, netCalls, otherVars>>

\* the review editor's Textarea onChange
fu_setExtractedText(text) ==
    /\ Mounted("upload")
    /\ fu_showTextEditor
    /\ text # fu_extractedText
    /\ fu_extractedText' = text
    /\ UNCHANGED <<indexVars, fu_selectedFile, fu_showTextEditor, fu_icdCodes,
                   brVars, miVars, netVars, otherVars>>

\* FileUpload.removeFile, the X button of the review editor
fu_removeFile ==
    /\ Mounted("upload")
    /\ fu_showTextEditor
    /\ fu_selectedFile' = Null
    /\ fu_extractedText' = <<>>
    /\ fu_showTextEditor' = FALSE
    /\ fu_icdCodes' = <<>>
    /\ UNCHANGED <<indexVars, brVars, miVars, netVars, otherVars>>

\* FileUpload.handleAnalyze; its button is disabled while isLoading or
\* while the text is blank
fu_handleAnalyze ==
    /\ Mounted("upload")
    /\ fu_showTextEditor
    /\ ~(isLoading \/ Trim(fu_extractedText) = <<>>)
    /\ ops < MaxOps
    /\ IF Trim(fu_extractedText) = <<>>
       THEN handleErrorOnly("Please provide text to analyze")
       ELSE /\ isLoading' = TRUE
            /\ pending' = pending \cup
                   {NewRequest("upload", "analyze", "structured", Null,
                               fu_extractedText)}
            /\ ops' = ops + 1
            /\ netCalls' = netCalls + 1
            /\ UNCHANGED <<activeTab, analysisData, bloodReportData, error,
                           fuVars, brVars, miVars>>
    /\ UNCHANGED otherVars

\* getMedicalAnalysis remembering the codes of its first call: later calls
\* do not ask the ICD endpoint again
analysisStructuredSettled_cached(comp, r, o) ==
    /\ r \in pending /\ r.comp = comp
    /\ r.kind = "analyze" /\ r.stage = "structured"
    /\ IF o.kind = "ok"
       THEN /\ pending' = (pending \ {r}) \cup
                   {[r EXCEPT !.stage = "icd", !.data = o]}
            /\ netCalls' = IF r.id > 1 THEN netCalls ELSE netCalls + 1
            /\ UNCHANGED <<error, isLoading>>
       ELSE /\ error' = messageOf(getMedicalAnalysis(o, o).value,
                                  "Failed to analyze text")
            /\ isLoading' = FALSE
            /\ pending' = pending \ {r}
            /\ UNCHANGED netCalls
    /\ UNCHANGED <<activeTab, analysisData, bloodReportData, fuVars, brVars,
                   miVars, ops, otherVars>>

\* handleAnalyze awaits getMedicalAnalysis, whose first request settles: the
\* ICD request follows any 2xx response; a failure is thrown to the catch
\* block of handleAnalyze
analysisStructuredSettled(comp, r, o) ==
    /\ r \in pending /\ r.comp = comp
    /\ r.kind = "analyze" /\ r.stage = "structured"
    /\ IF o.kind = "ok"
       THEN /\ pending' = (pending \ {r}) \cup
                   {[r EXCEPT !.stage = "icd", !.data = o]}
            /\ netCalls' = netCalls + 1
            /\ UNCHANGED <<error, isLoading>>
       ELSE /\ error' = messageOf(getMedicalAnalysis(o, o).value,
                                  "Failed to analyze text")
            /\ isLoading' = FALSE
            /\ pending' = pending \ {r}
            /\ UNCHANGED netCalls
    /\ UNCHANGED <<activeTab, analysisData, bloodReportData, fuVars, brVars,
                   miVars, ops, otherVars>>

\* handleAnalyze resumes after `await documentApi.getMedicalAnalysis`
analysisSettled(comp, r, o) ==
    /\ r \in pending /\ r.comp = comp
    /\ r.kind = "analyze" /\ r.stage = "icd"
    /\ LET res == getMedicalAnalysis(r.data, o) IN
       IF res.thrown
       THEN /\ error' = messageOf(res.value, "Failed to analyze text")
            /\ isLoading' = FALSE
            /\ pending' = pending \ {r}
            /\ UNCHANGED <<activeTab, analysisData, bloodReportData, fuVars,
                           brVars, miVars, ops, netCalls>>
       ELSE handleAnalysisComplete(res.value, r)
    /\ UNCHANGED otherVars

\* FileUpload.handleAnalyze, first request of getMedicalAnalysis settled
fu_analysisStructuredSettled(r, o) ==
    /\ analysisStructuredSettled("upload", r, o)

\* FileUpload.handleAnalyze, getMedicalAnalysis settled
fu_analysisSettled(r, o) ==
    /\ analysisSettled("upload", r, o)

----------------------------------------------------------------------------
(* BloodReportChecker *)

\* the blood-report type check done with the document whitelist instead
br_typeRejected_documentTypes(file) == file.type \notin acceptedTypes

\* file.type !== "application/pdf"
br_typeRejected(file) == file.type # "application/pdf"

\* file.size > 10 * 1024 * 1024
br_sizeRejected(file) == file.size > MaxFileSize

\* BloodReportChecker.handleFileSelection followed by analyzeReport
br_handleFileSelection(file) ==
    IF br_typeRejected(file)
    THEN handleErrorOnly("Please upload a PDF file only")
    ELSE IF br_sizeRejected(file)
    THEN handleErrorOnly("File size must be less than 10MB")
    ELSE /\ br_selectedFile' = file
         /\ isLoading' = TRUE
         /\ pending' = pending \cup
                {NewRequest("bloodreport", "blood", "upload", file, <<>>)}
         /\ ops' = ops + 1
         /\ netCalls' = netCalls + 1
         /\ UNCHANGED <<activeTab, analysisData, bloodReportData, error,
                        fuVars, miVars>>

\* the file passes BloodReportChecker.handleFileSelection's checks
br_passes(file) == ~br_typeRejected(file) /\ ~br_sizeRejected(file)

\* BloodReportChecker.handleDrop: the drop zone is always part of the upload UI
br_handleDrop(file) ==
    /\ Mounted("bloodreport")
    /\ br_passes(file) => ops < MaxOps
    /\ br_handleFileSelection(file)
    /\ UNCHANGED otherVars

\* BloodReportChecker.handleFileInputChange: the file input is rendered while
\* no file is selected
br_handleFileInputChange(file) ==
    /\ Mounted("bloodreport")
    /\ br_selectedFile.t = "null"
    /\ br_passes(file) => ops < MaxOps
    /\ br_handleFileSelection(file)
    /\ UNCHANGED otherVars

\* BloodReportChecker.removeFile: the button replaces the spinner when idle
br_removeFile ==
    /\ Mounted("bloodreport")
    /\ br_selectedFile.t # "null"
    /\ ~isLoading
    /\ br_selectedFile' = Null
    /\ UNCHANGED <<indexVars, fuVars, miVars, netVars, otherVars>>

\* BloodReportChecker.analyzeReport resumes after `await bloodApi.uploadReport`
br_uploadSettled(r, o) ==
    /\ r \in pending /\ r.kind = "blood"
    /\ LET res == uploadReport(o) IN
       IF res.thrown
       THEN /\ error' = messageOf(res.value,
                                  "Failed to analyze blood test results")
            /\ br_selectedFile' = IF r.live THEN Null ELSE br_selectedFile
            /\ isLoading' = FALSE
            /\ pending' = pending \ {r}
            /\ UNCHANGED <<activeTab, analysisData, bloodReportData, fuVars,
                           miVars, ops, netCalls>>
       ELSE handleBloodReportComplete(res.value, r)
    /\ UNCHANGED otherVars

----------------------------------------------------------------------------
(* ManualInput *)

\* characters below which the debounced callback does nothing
minLookupLength == 20

\* the Textarea's onChange whose effect forgets to clear the previous timer
mi_setInputText_noCleanup(text) ==
    /\ Mounted("manual")
    /\ text # mi_inputText
    /\ mi_inputText' = text
    /\ mi_timers' = mi_timers \cup {text}
    /\ UNCHANGED <<indexVars, fuVars, brVars, mi_icdCodes, mi_lookups,
                   mi_issued, netVars, otherVars>>

\* the Textarea's onChange and the effect of the render that follows: the
\* cleanup of the previous run clears its timer, the new run sets a timer
\* whose callback sees the new text
mi_setInputText(text) ==
    /\ Mounted("manual")
    /\ text # mi_inputText
    /\ mi_inputText' = text
    /\ mi_timers' = (mi_timers \ {mi_inputText}) \cup {text}
    /\ UNCHANGED <<indexVars, fuVars, brVars, mi_icdCodes, mi_lookups,
                   mi_issued, netVars, otherVars>>

\* an analyzeText call a ManualInput handler is about to await
NewLookup(kind, text) ==
    [id |-> mi_issued + 1, kind |-> kind, stage |-> "structured",
     live |-> TRUE, text |-> text, data |-> Null]

\* the debounce timer expires after 1000 ms and runs updateIcdCodes up to
\* `await documentApi.analyzeText`
mi_debounceFired(text) ==
    /\ text \in mi_timers
    /\ Len(text) >= minLookupLength => mi_issued < MaxLookups
    /\ mi_timers' = mi_timers \ {text}
    /\ IF Len(text) < minLookupLength
       THEN UNCHANGED <<mi_lookups, mi_issued, netCalls>>
       ELSE /\ mi_lookups' = mi_lookups \cup {NewLookup("lookup", text)}
            /\ mi_issued' = mi_issued + 1
            /\ netCalls' = netCalls + 1
    /\ UNCHANGED <<indexVars, fuVars, brVars, mi_inputText, mi_icdCodes,
                   pending, ops, otherVars>>

\* ManualInput.handleCorrectText up to `await documentApi.analyzeText`; its
\* button is disabled while isLoading or while the text is blank
mi_handleCorrectText ==
    /\ Mounted("manual")
    /\ ~(isLoading \/ Trim(mi_inputText) = <<>>)
    /\ mi_issued < MaxLookups
    /\ IF Trim(mi_inputText) = <<>>
       THEN handleErrorOnly("Please enter text to correct")
       ELSE /\ mi_lookups' = mi_lookups \cup
                   {NewLookup("correct", mi_inputText)}
            /\ mi_issued' = mi_issued + 1
            /\ netCalls' = netCalls + 1
            /\ UNCHANGED <<indexVars, fuVars, brVars, mi_inputText,
                           mi_icdCodes, mi_timers, pending, ops>>
    /\ UNCHANGED otherVars

\* analyzeText, called by updateIcdCodes or handleCorrectText: its first
\* request settles; on a failure it returns its default object, in which
\* neither handler finds codes
mi_lookupStructuredSettled(l, o) ==
    /\ l \in mi_lookups /\ l.stage = "structured"
    /\ IF o.kind = "ok"
       THEN /\ mi_lookups' = (mi_lookups \ {l}) \cup
                   {[l EXCEPT !.stage = "icd", !.data = o]}
            /\ netCalls' = netCalls + 1
       ELSE /\ mi_lookups' = mi_lookups \ {l}
            /\ UNCHANGED netCalls
    /\ UNCHANGED <<indexVars, fuVars, brVars, mi_inputText, mi_icdCodes,
                   mi_timers, mi_issued, pending, ops, otherVars>>

\* updateIcdCodes resumes after `await documentApi.analyzeText`
mi_updateIcdCodesSettled(l, o) ==
    /\ l \in mi_lookups /\ l.kind = "lookup" /\ l.stage = "icd"
    /\ LET result == analyzeText(l.data, o).value IN
       IF l.live /\ hasCodes(result)
       THEN mi_icdCodes' = result.icd_codes.v
       ELSE UNCHANGED mi_icdCodes
    /\ mi_lookups' = mi_lookups \ {l}
    /\ UNCHANGED <<indexVars, fuVars, brVars, mi_inputText, mi_timers,
                   mi_issued, netVars, otherVars>>

\* handleCorrectText resumes after `await documentApi.analyzeText`
mi_correctTextSettled(l, o) ==
    /\ l \in mi_lookups /\ l.kind = "correct" /\ l.stage = "icd"
    /\ LET result == analyzeText(l.data, o).value IN
       IF l.live /\ Truthy(Get(result, "success")) /\ hasCodes(result)
       THEN mi_icdCodes' = result.icd_codes.v
       ELSE UNCHANGED mi_icdCodes
    /\ mi_lookups' = mi_lookups \ {l}
    /\ UNCHANGED <<indexVars, fuVars, brVars, mi_inputText, mi_timers,
                   mi_issued, netVars, otherVars>>

\* ManualInput.handleAnalyze; its button is disabled while isLoading or while
\* the text is blank
mi_handleAnalyze ==
    /\ Mounted("manual")
    /\ ~(isLoading \/ Trim(mi_inputText) = <<>>)
    /\ ops < MaxOps
    /\ IF Trim(mi_inputText) = <<>>
       THEN handleErrorOnly("Please enter medical text to analyze")
       ELSE /\ isLoading' = TRUE
            /\ pending' = pending \cup
                   {NewRequest("manual", "analyze", "structured", Null,
                               mi_inputText)}
            /\ ops' = ops + 1
            /\ netCalls' = netCalls + 1
            /\ UNCHANGED <<activeTab, analysisData, bloodReportData, error,
                           fuVars, brVars, miVars>>
    /\ UNCHANGED otherVars

\* ManualInput.handleAnalyze, first request of getMedicalAnalysis settled
mi_analysisStructuredSettled(r, o) ==
    /\ analysisStructuredSettled("manual", r, o)

\* ManualInput.handleAnalyze, getMedicalAnalysis settled
mi_analysisSettled(r, o) ==
    /\ analysisSettled("manual", r, o)

----------------------------------------------------------------------------
(* The screen: user events and backend answers in any order *)

UploadOutcomes == {Ok(d) : d \in UploadDatas} \cup Failures
StructuredOutcomes == {Ok(d) : d \in StructuredDatas} \cup Failures
IcdOutcomes == {Ok(d) : d \in IcdDatas} \cup Failures
BloodOutcomes == {Ok(d) : d \in BloodDatas} \cup Failures
Tabs == {"upload", "manual", "bloodreport"}

Next ==
    \/ \E tab \in Tabs : setActiveTab(tab)
    \/ resetAnalysis
    \/ \E file \in Files : fu_handleDrop(file)
    \/ \E file \in Files : fu_handleFileInputChange(file)
    \/ \E r \in pending, o \in UploadOutcomes : fu_uploadSettled(r, o)
    \/ \E r \in pending, o \in StructuredOutcomes :
           fu_lookupStructuredSettled(r, o)
    \/ \E r \in pending, o \in IcdOutcomes : fu_lookupSettled(r, o)
    \/ \E text \in Texts : fu_setExtractedText(text)
    \/ fu_removeFile
    \/ fu_handleAnalyze
    \/ \E r \in pending, o \in StructuredOutcomes :
           fu_analysisStructuredSettled(r, o)
    \/ \E r \in pending, o \in IcdOutcomes : fu_analysisSettled(r, o)
    \/ \E file \in Files : br_handleDrop(file)
    \/ \E file \in Files : br_handleFileInputChange(file)
    \/ br_removeFile
    \/ \E r \in pending, o \in BloodOutcomes : br_uploadSettled(r, o)
    \/ \E text \in Texts : mi_setInputText(text)
    \/ mi_handleAnalyze
    \/ \E r \in pending, o \in StructuredOutcomes :
           mi_analysisStructuredSettled(r, o)
    \/ \E r \in pending, o \in IcdOutcomes : mi_analysisSettled(r, o)

Spec == Init /\ [][Next]_vars

----------------------------------------------------------------------------
(* ManualInput while the user types: the debounced ICD lookup and Correct   *)
(* Text.  In Spec the texts typed are shorter than minLookupLength, for     *)
(* which an expired timer does nothing; here they are long enough.          *)

Spaces(n) == [i \in 1..n |-> " "]

\* texts typed into the manual Textarea: a short one, a note of 20
\* characters and 20 blanks
TypedTexts == {<<"a">>, <<"B", "P">> \o Spaces(17) \o <<"x">>, Spaces(20)}

NextTyping ==
    \/ \E tab \in Tabs : setActiveTab(tab)
    \/ \E text \in TypedTexts : mi_setInputText(text)
    \/ \E text \in mi_timers : mi_debounceFired(text)
    \/ mi_handleCorrectText
    \/ \E l \in mi_lookups, o \in StructuredOutcomes :
           mi_lookupStructuredSettled(l, o)
    \/ \E l \in mi_lookups, o \in IcdOutcomes : mi_updateIcdCodesSettled(l, o)
    \/ \E l \in mi_lookups, o \in IcdOutcomes : mi_correctTextSettled(l, o)

SpecTyping == Init /\ [][NextTyping]_vars

----------------------------------------------------------------------------
(* ChatBot *)

\* texts the user types into the chat input
ChatTexts == {<<" ">>, <<"a">>, <<"b", " ">>}

\* response bodies of POST /chat/message
ChatDatas ==
    {[t |-> "obj", success |-> [t |-> "bool", v |-> TRUE],
      message |-> Text(<<"reply">>), response |-> Undefined],
     [t |-> "obj", success |-> Undefined, message |-> Undefined,
      response |-> Text(<<"answer">>)],
     [t |-> "obj", success |-> [t |-> "bool", v |-> TRUE],
      message |-> Undefined, response |-> Undefined]}
ChatOutcomes == {Ok(d) : d \in ChatDatas} \cup {NoResponse} \cup Failures

\* chatApi.sendMessage handing a failed request back as a reply that carries
\* the error's message
sendMessage_returnsError(o) ==
    IF o.kind # "ok"
    THEN Return([t |-> "obj", success |-> [t |-> "bool", v |-> FALSE],
                 message |-> Text(<<handleError(o).message.v>>),
                 response |-> Undefined])
    ELSE IF Truthy(Get(o.data, "success")) /\ Truthy(Get(o.data, "message"))
    THEN Return(o.data)
    ELSE IF Truthy(Get(o.data, "response"))
    THEN Return([t |-> "obj", success |-> [t |-> "bool", v |-> TRUE],
                 message |-> Get(o.data, "response"), response |-> Undefined])
    ELSE Throw(handleError(JsError(
             Str("Invalid response format from chat API"))))

\* chatApi.sendMessage
sendMessage(o) ==
    IF o.kind # "ok" THEN Throw(handleError(o))
    ELSE IF Truthy(Get(o.data, "success")) /\ Truthy(Get(o.data, "message"))
    THEN Return(o.data)
    ELSE IF Truthy(Get(o.data, "response"))
    THEN Return([t |-> "obj", success |-> [t |-> "bool", v |-> TRUE],
                 message |-> Get(o.data, "response"), response |-> Undefined])
    ELSE Throw(handleError(JsError(
             Str("Invalid response format from chat API"))))

\* the text of the turn ChatBot appends when a send fails
apology ==
    <<"I apologize, but I'm having trouble processing your request right now. Please try again.">>

\* Array.prototype.slice(start)
Slice(s, start) ==
    LET from == IF start < 0
                THEN (IF Len(s) + start < 0 THEN 0 ELSE Len(s) + start)
                ELSE (IF start > Len(s) THEN Len(s) ELSE start)
    IN  SubSeq(s, from + 1, Len(s))

\* number of turns handleSendMessage forwards as context
contextTurns == 5

\* the context taken from the start of the log: messages.slice(0, 5)
contextOf_firstTurns(messages) ==
    LET first == SubSeq(messages, 1,
                        IF Len(messages) < contextTurns
                        THEN Len(messages) ELSE contextTurns)
    IN  [i \in 1..Len(first) |->
            [role |-> IF first[i].isUser THEN "user" ELSE "assistant",
             content |-> first[i].text]]

\* messages.slice(-5).map(msg => ({role, content})) in handleSendMessage
contextOf(messages) ==
    LET last == Slice(messages, 0 - contextTurns) IN
    [i \in 1..Len(last) |->
        [role |-> IF last[i].isUser THEN "user" ELSE "assistant",
         content |-> last[i].text]]

\* user turns in the log
userTurns == Len(SelectSeq(chat_messages, LAMBDA m : m.isUser))

\* ChatBot.handleOpen, the round button of the collapsed panel
chat_handleOpen ==
    /\ ~chat_isOpen
    /\ chat_isOpen' = TRUE
    /\ chat_hasNewResponse' = FALSE
    /\ UNCHANGED <<uiVars, adapterVars, chat_messages, chat_inputText, chat_isLoading,
                   chat_timers, chat_pending>>

\* the X button also starting the conversation over
chat_close_clearsLog ==
    /\ chat_isOpen
    /\ chat_isOpen' = FALSE
    /\ chat_messages' = <<greeting>>
    /\ UNCHANGED <<uiVars, adapterVars, chat_inputText, chat_isLoading,
                   chat_hasNewResponse, chat_timers, chat_pending>>

\* the X button of the open panel: onClick={() => setIsOpen(false)}
chat_close ==
    /\ chat_isOpen
    /\ chat_isOpen' = FALSE
    /\ UNCHANGED <<uiVars, adapterVars, chat_messages, chat_inputText, chat_isLoading,
                   chat_hasNewResponse, chat_timers, chat_pending>>

\* the chat Input's onChange; the Input is disabled while isLoading
chat_setInputText(text) ==
    /\ chat_isOpen
    /\ ~chat_isLoading
    /\ text # chat_inputText
    /\ chat_inputText' = text
    /\ UNCHANGED <<uiVars, adapterVars, chat_isOpen, chat_messages, chat_isLoading,
                   chat_hasNewResponse, chat_timers, chat_pending>>

\* handleSendMessage without its setIsLoading(true): the Input and the send
\* button stay enabled while the request is pending
chat_handleSendMessage_notBusy ==
    /\ chat_isOpen
    /\ ~chat_isLoading
    /\ Trim(chat_inputText) # <<>>
    /\ userTurns < MaxSends
    /\ chat_messages' =
           Append(chat_messages, [text |-> chat_inputText, isUser |-> TRUE])
    /\ chat_inputText' = <<>>
    /\ chat_pending' = chat_pending \cup
           {[text |-> chat_inputText, context |-> contextOf(chat_messages),
             isOpen |-> chat_isOpen]}
    /\ UNCHANGED <<uiVars, adapterVars, chat_isOpen, chat_isLoading,
                   chat_hasNewResponse, chat_timers>>

\* ChatBot.handleSendMessage up to `await chatApi.sendMessage`, from the send
\* button or the Enter key of the (enabled) Input
chat_handleSendMessage ==
    /\ chat_isOpen
    /\ ~chat_isLoading
    /\ Trim(chat_inputText) # <<>>
    /\ userTurns < MaxSends
    /\ chat_messages' =
           Append(chat_messages, [text |-> chat_inputText, isUser |-> TRUE])
    /\ chat_inputText' = <<>>
    /\ chat_isLoading' = TRUE
    /\ chat_pending' = chat_pending \cup
           {[text |-> chat_inputText, context |-> contextOf(chat_messages),
             isOpen |-> chat_isOpen]}
    /\ UNCHANGED <<uiVars, adapterVars, chat_isOpen, chat_hasNewResponse, chat_timers>>

\* ChatBot.handleSendMessage resumes after `await chatApi.sendMessage`; the
\* isOpen it reads is the one of the render the handler was created in
chat_sendSettled(r, o) ==
    /\ r \in chat_pending
    /\ LET response == sendMessage(o) IN
       IF response.thrown
       THEN /\ chat_messages' =
                   Append(chat_messages, [text |-> apology, isUser |-> FALSE])
            /\ UNCHANGED <<chat_hasNewResponse, chat_timers>>
       ELSE /\ chat_messages' =
                   Append(chat_messages,
                          [text |-> response.value.message.v,
                           isUser |-> FALSE])
            /\ IF ~r.isOpen
               THEN /\ chat_hasNewResponse' = TRUE
                    /\ chat_timers' = chat_timers + 1
               ELSE UNCHANGED <<chat_hasNewResponse, chat_timers>>
    /\ chat_isLoading' = FALSE
    /\ chat_pending' = chat_pending \ {r}
    /\ UNCHANGED <<uiVars, adapterVars, chat_isOpen, chat_inputText>>

NextChat ==
    \/ chat_handleOpen
    \/ chat_close
    \/ \E text \in ChatTexts : chat_setInputText(text)
    \/ chat_handleSendMessage
    \/ \E r \in chat_pending, o \in ChatOutcomes : chat_sendSettled(r, o)

SpecChat == Init /\ [][NextChat]_vars

----------------------------------------------------------------------------
(* The API adapter on its own: each step is one call of an adapter function *)
(* with the backend answering its requests in some way.                     *)

\* ways a request can fail: bad status with and without a detail, no
\* response, and an error raised before the request was sent
RequestFailures ==
    {BadStatus(500, Str("Internal error")), BadStatus(422, Undefined),
     NoResponse, JsError(Str("Request aborted")), JsError(Str(""))}

\* documentApi.getSummary
getSummary(o) ==
    IF o.kind = "ok" THEN Return(o.data) ELSE Throw(handleError(o))

\* reportApi.analyzeBloodReport
analyzeBloodReport(o) ==
    IF o.kind = "ok" THEN Return(o.data) ELSE Throw(handleError(o))

\* reportApi.generateReport
generateReport(o) ==
    IF o.kind = "ok" THEN Return(o.data) ELSE Throw(handleError(o))

\* one count of {normalCount: 0, ..., ...(response.data.summary || {})}
countOf(summary, field) ==
    IF summary.t = "obj" /\ field \in DOMAIN summary
    THEN summary[field] ELSE Num(0)

\* bloodApi.analyzeTests
analyzeTests(o) ==
    IF o.kind # "ok" THEN Throw(handleError(o))
    ELSE IF ~Truthy(o.data) \/ ~TypeofObject(o.data)
    THEN Throw(handleError(JsError(Str("Invalid response format from server"))))
    ELSE LET summary == Get(o.data, "summary") IN
         Return([t |-> "obj",
                 summary |-> [t |-> "obj",
                              normalCount |-> countOf(summary, "normalCount"),
                              abnormalCount |->
                                  countOf(summary, "abnormalCount"),
                              criticalCount |->
                                  countOf(summary, "criticalCount")],
                 tests |-> OrElse(Get(o.data, "tests"), Arr(<<>>)),
                 recommendations |-> Get(o.data, "recommendations")])

\* the requests a call of two requests issues: the second one only after a
\* 2xx response to the first
issued(first, second) ==
    IF first.kind = "ok" THEN <<first, second>> ELSE <<first>>

\* a call of documentApi.uploadPdf
api_uploadPdf(o) ==
    /\ api_fn' = "uploadPdf"
    /\ api_outcomes' = <<o>>
    /\ api_result' = uploadPdf(o)
    /\ UNCHANGED <<uiVars, chatVars>>

\* a call of documentApi.getSummary
api_getSummary(o) ==
    /\ api_fn' = "getSummary"
    /\ api_outcomes' = <<o>>
    /\ api_result' = getSummary(o)
    /\ UNCHANGED <<uiVars, chatVars>>

\* sendMessage returning response.data as it is, like uploadPdf
api_sendMessage_rawData(o) ==
    /\ api_fn' = "sendMessage"
    /\ api_outcomes' = <<o>>
    /\ api_result' = uploadPdf(o)
    /\ UNCHANGED <<uiVars, chatVars>>

\* a call of chatApi.sendMessage
api_sendMessage(o) ==
    /\ api_fn' = "sendMessage"
    /\ api_outcomes' = <<o>>
    /\ api_result' = sendMessage(o)
    /\ UNCHANGED <<uiVars, chatVars>>

\* a call of reportApi.analyzeBloodReport
api_analyzeBloodReport(o) ==
    /\ api_fn' = "analyzeBloodReport"
    /\ api_outcomes' = <<o>>
    /\ api_result' = analyzeBloodReport(o)
    /\ UNCHANGED <<uiVars, chatVars>>

\* a call of reportApi.generateReport
api_generateReport(o) ==
    /\ api_fn' = "generateReport"
    /\ api_outcomes' = <<o>>
    /\ api_result' = generateReport(o)
    /\ UNCHANGED <<uiVars, chatVars>>

\* a call of bloodApi.analyzeTests
api_analyzeTests(o) ==
    /\ api_fn' = "analyzeTests"
    /\ api_outcomes' = <<o>>
    /\ api_result' = analyzeTests(o)
    /\ UNCHANGED <<uiVars, chatVars>>

\* a call of bloodApi.uploadReport
api_uploadReport(o) ==
    /\ api_fn' = "uploadReport"
    /\ api_outcomes' = <<o>>
    /\ api_result' = uploadReport(o)
    /\ UNCHANGED <<uiVars, chatVars>>

\* documentApi.analyzeText: structured-analysis, then the ICD lookup
api_analyzeText(structured, icd) ==
    /\ api_fn' = "analyzeText"
    /\ api_outcomes' = issued(structured, icd)
    /\ api_result' = analyzeText(structured, icd)
    /\ UNCHANGED <<uiVars, chatVars>>

\* getMedicalAnalysis handing back the spread of the two responses, the way
\* analyzeText does
api_getMedicalAnalysis_noDefaults(structured, icd) ==
    /\ api_fn' = "getMedicalAnalysis"
    /\ api_outcomes' = issued(structured, icd)
    /\ api_result' =
           IF getMedicalAnalysis(structured, icd).thrown
           THEN getMedicalAnalysis(structured, icd)
           ELSE analyzeText(structured, icd)
    /\ UNCHANGED <<uiVars, chatVars>>

\* documentApi.getMedicalAnalysis: structured-analysis, then the ICD lookup
api_getMedicalAnalysis(structured, icd) ==
    /\ api_fn' = "getMedicalAnalysis"
    /\ api_outcomes' = issued(structured, icd)
    /\ api_result' = getMedicalAnalysis(structured, icd)
    /\ UNCHANGED <<uiVars, chatVars>>

AnyUploadOutcomes == {Ok(d) : d \in UploadDatas} \cup RequestFailures
\* a structured analysis that succeeded but found nothing to report
PartialStructuredData ==
    [t |-> "obj", success |-> [t |-> "bool", v |-> TRUE],
     primary_diagnosis |-> Undefined, prescribed_medication |-> Undefined,
     followup_instructions |-> Str(""), medical_entities |-> Undefined,
     error |-> Undefined]

AnyStructuredOutcomes ==
    {Ok(d) : d \in StructuredDatas \cup {PartialStructuredData, Null}}
        \cup RequestFailures
AnyIcdOutcomes == {Ok(d) : d \in IcdDatas} \cup RequestFailures
\* further bodies of POST /chat/message: a message not marked successful,
\* and a body with both fields
MoreChatDatas ==
    {[t |-> "obj", success |-> [t |-> "bool", v |-> FALSE],
      message |-> Text(<<"sorry">>), response |-> Undefined],
     [t |-> "obj", success |-> Undefined, message |-> Text(<<"hi">>),
      response |-> Text(<<"answer">>)]}

AnyChatOutcomes ==
    {Ok(d) : d \in ChatDatas \cup MoreChatDatas} \cup RequestFailures
AnyBloodOutcomes == {Ok(d) : d \in BloodDatas} \cup RequestFailures

NextAdapter ==
    \/ \E o \in AnyUploadOutcomes : api_uploadPdf(o)
    \/ \E s \in AnyStructuredOutcomes, i \in AnyIcdOutcomes :
           api_analyzeText(s, i)
    \/ \E s \in AnyStructuredOutcomes, i \in AnyIcdOutcomes :
           api_getMedicalAnalysis(s, i)
    \/ \E o \in AnyUploadOutcomes : api_getSummary(o)
    \/ \E o \in AnyChatOutcomes : api_sendMessage(o)
    \/ \E o \in AnyBloodOutcomes : api_analyzeBloodReport(o)
    \/ \E o \in AnyBloodOutcomes : api_generateReport(o)
    \/ \E o \in AnyBloodOutcomes : api_analyzeTests(o)
    \/ \E o \in AnyBloodOutcomes : api_uploadReport(o)

SpecAdapter == Init /\ [][NextAdapter]_vars

----------------------------------------------------------------------------
(* Properties of the screen *)

\* requests suspended by the mounted document-upload component
fu_inFlight == {r \in pending : r.comp = "upload" /\ r.live}

\* C1: the document analysis result and the blood report result are never
\* both set at the same time.
C1_NeverBothResults ==
    ~(analysisData.t # "null" /\ bloodReportData.t # "null")

\* C2: within one document-upload workflow instance at most one extraction
\* or analysis is in flight at any time.
C2_AtMostOneInFlight == Cardinality(fu_inFlight) <= 1

\* C3: whenever a request started by an input component is still pending,
\* the shared busy flag isLoading is true.
C3_BusyWhilePending == (pending # {}) => isLoading

\* the analysis awaited by FileUpload.handleAnalyze for request r fails when
\* the backend answers o: a request got no 2xx answer, or the structured
\* answer does not report success
fu_analysisFails(r, o) ==
    \/ fu_analysisStructuredSettled(r, o) /\ o.kind # "ok"
    \/ /\ fu_analysisSettled(r, o)
       /\ \/ o.kind # "ok"
          \/ ~Truthy(Get(r.data.data, "success"))

\* C4 as claimed: when analysis of the reviewed text fails, the editor is
\* shown with exactly the text that was submitted, the busy flag is cleared,
\* an error is surfaced and no analysis result is set.
C4_FailureShowsSubmittedText ==
    [][\A r \in pending : \A o \in StructuredOutcomes \cup IcdOutcomes :
         (r.live /\ fu_analysisFails(r, o)) =>
            /\ fu_showTextEditor'
            /\ fu_extractedText' = r.text
            /\ ~isLoading'
            /\ error' # ""
            /\ analysisData'.t = "null"]_vars

\* C4 (amended): when analysis of the reviewed text fails while the upload
\* component is mounted, the failure leaves the upload session exactly as it
\* was at that moment (selected file, text, editor, codes), clears the busy
\* flag, surfaces a non-empty error and sets no analysis result.
C4_FailureKeepsSession ==
    [][\A r \in pending : \A o \in StructuredOutcomes \cup IcdOutcomes :
         (r.live /\ fu_analysisFails(r, o)) =>
            /\ UNCHANGED fuVars
            /\ ~isLoading'
            /\ error' # ""
            /\ analysisData'.t = "null"
            /\ UNCHANGED <<analysisData, bloodReportData>>]_vars

\* an analysis of the reviewed text has just failed: the editor is still
\* open on a submittable text, nothing is pending, the backend's reason for
\* rejecting the text is shown
C4_Witness ==
    /\ Mounted("upload")
    /\ fu_showTextEditor
    /\ Trim(fu_extractedText) # <<>>
    /\ pending = {}
    /\ ~isLoading
    /\ error = "Text too short"

\* C5: when text extraction of a selected document fails, the workflow is back
\* in Idle: error surfaced, busy flag cleared, selectedFile null, no editor.
C5_ExtractionFailureClearsFile ==
    [][\A r \in pending : \A o \in UploadOutcomes :
         (r.live /\ fu_uploadSettled(r, o) /\ o.kind # "ok") =>
            /\ error' # ""
            /\ ~isLoading'
            /\ fu_selectedFile'.t = "null"
            /\ ~fu_showTextEditor']_vars

\* C6: selecting a file whose MIME type is not whitelisted raises a
\* validation error, issues no request and leaves selectedFile, extractedText,
\* the editor and the busy flag unchanged.
C6_BadTypeChangesNothing ==
    [][\A file \in Files :
         (/\ file.type \notin acceptedTypes
          /\ fu_handleDrop(file) \/ fu_handleFileInputChange(file)) =>
            /\ error' # ""
            /\ netCalls' = netCalls
            /\ pending' = pending
            /\ UNCHANGED <<fuVars, isLoading>>]_vars

\* C7: a file larger than 10 MB is rejected before any network call, and on
\* each entry path the step taken for it is the step taken for any other
\* oversized file, whatever their MIME types.
C7_OversizeRejectedAlike ==
    [][\A f \in Files : \A g \in Files :
         (f.size > 10 * 1024 * 1024 /\ g.size > 10 * 1024 * 1024) =>
            /\ fu_handleDrop(f) =>
                   netCalls' = netCalls /\ error' # "" /\ fu_handleDrop(g)
            /\ fu_handleFileInputChange(f) =>
                   /\ netCalls' = netCalls /\ error' # ""
                   /\ fu_handleFileInputChange(g)
            /\ br_handleDrop(f) =>
                   netCalls' = netCalls /\ error' # "" /\ br_handleDrop(g)
            /\ br_handleFileInputChange(f) =>
                   /\ netCalls' = netCalls /\ error' # ""
                   /\ br_handleFileInputChange(g)]_vars

\* the blood-report upload takes this file
BloodAcceptable(file) ==
    file.type = "application/pdf" /\ file.size <= 10 * 1024 * 1024

\* C8: blood-report upload accepts only application/pdf files of at most
\* 10 MB: such a file is uploaded; any other file raises an error shown on
\* the input card and no request is issued.
C8_BloodAcceptsOnlyPdf ==
    [][/\ \A r \in pending' \ pending :
             r.kind = "blood" => BloodAcceptable(r.file)
       /\ \A file \in Files :
            (br_handleDrop(file) \/ br_handleFileInputChange(file)) =>
               IF BloodAcceptable(file)
               THEN /\ netCalls' = netCalls + 1
                    /\ \E r \in pending' \ pending :
                          r.kind = "blood" /\ r.file = file
               ELSE /\ netCalls' = netCalls
                    /\ pending' = pending
                    /\ error' \in {"Please upload a PDF file only",
                                   "File size must be less than 10MB"}
                    /\ InputView']_vars

\* a non-PDF file has just been refused by the blood-report checker, before
\* any request was made
C8_Witness ==
    /\ Mounted("bloodreport")
    /\ error = "Please upload a PDF file only"
    /\ netCalls = 0
    /\ br_selectedFile.t = "null"

\* a number is stored under `field` of `obj`
HasCount(obj, field) == Get(obj, field).t = "num"

\* C9: the blood report result handed to the UI has a summary whose three
\* counts are defined, and tests and recommendations that are sequences, so
\* that the results view never reads a field of an undefined summary.
C9_BloodResultRenderable ==
    bloodReportData.t # "null" =>
        /\ HasCount(Get(bloodReportData, "summary"), "normalCount")
        /\ HasCount(Get(bloodReportData, "summary"), "abnormalCount")
        /\ HasCount(Get(bloodReportData, "summary"), "criticalCount")
        /\ Get(bloodReportData, "tests").t = "arr"
        /\ Get(bloodReportData, "recommendations").t = "arr"

----------------------------------------------------------------------------
(* Properties of the chat panel *)

\* the last min(5, n) turns of a log of n turns, as request context
LastTurns(log) ==
    LET n == Len(log)
        k == IF n < 5 THEN n ELSE 5
    IN  [i \in 1..k |->
            [role |-> IF log[n - k + i].isUser THEN "user" ELSE "assistant",
             content |-> log[n - k + i].text]]

\* C10: on each chat send, the context of the request is exactly the last
\* min(5, n) turns of the log as it was before the new user turn was
\* appended, in log order, with role 'user' for user turns and 'assistant'
\* otherwise; the new message is the request's text, not part of the context.
C10_ContextIsLastFive ==
    [][chat_handleSendMessage =>
         \E r \in chat_pending' \ chat_pending :
            /\ r.context = LastTurns(chat_messages)
            /\ r.text = chat_inputText
            /\ chat_messages' =
                   Append(chat_messages, [text |-> r.text, isUser |-> TRUE])]_vars

\* the 8th turn is being sent after 7 turns: its context holds 5 turns
C10_Witness ==
    /\ Len(chat_messages) = 8
    /\ \E r \in chat_pending :
          /\ Len(r.context) = 5
          /\ r.context[1].role = "assistant"
          /\ r.context[5].role = "assistant"
          /\ r.context[4].content = chat_messages[6].text

\* the backend gave no usable answer to a chat request: no 2xx response, or
\* a body with neither a message marked successful nor a `response` field
ChatFailed(o) ==
    \/ o.kind # "ok"
    \/ /\ ~(Truthy(Get(o.data, "success")) /\ Truthy(Get(o.data, "message")))
       /\ ~Truthy(Get(o.data, "response"))

\* C11: when a chat request fails, for whatever reason, the send handler
\* completes (nothing escapes it), the log gains exactly one assistant turn
\* with the fixed apology text right after the user turn of that request, no
\* error text of the backend or the network enters the log, and the chat
\* busy flag is cleared.
C11_FailureAppendsApology ==
    [][\A r \in chat_pending, o \in ChatOutcomes :
          (chat_sendSettled(r, o) /\ ChatFailed(o)) =>
             /\ chat_messages[Len(chat_messages)] =
                    [text |-> r.text, isUser |-> TRUE]
             /\ chat_messages' =
                    Append(chat_messages, [text |-> apology, isUser |-> FALSE])
             /\ r \notin chat_pending'
             /\ ~chat_isLoading']_vars

\* a failed send has been answered by the apology; the panel is idle again
C11_Witness ==
    /\ Len(chat_messages) >= 3
    /\ chat_messages[Len(chat_messages)] = [text |-> apology, isUser |-> FALSE]
    /\ chat_messages[Len(chat_messages) - 1].isUser
    /\ ~chat_isLoading
    /\ chat_pending = {}

\* C12: the chat log is append-only: every step (send, response, failure,
\* open, close, typing) keeps the existing turns at their positions with
\* their content and never shortens the log; a send, which derives the
\* 5-turn context, only appends the user turn.
C12_LogAppendOnly ==
    [][/\ Len(chat_messages') >= Len(chat_messages)
       /\ SubSeq(chat_messages', 1, Len(chat_messages)) = chat_messages
       /\ chat_handleSendMessage =>
              chat_messages' =
                  Append(chat_messages,
                         [text |-> chat_inputText, isUser |-> TRUE])]_vars

\* a log of several turns after the panel was closed again
C12_Witness ==
    /\ Len(chat_messages) >= 5
    /\ ~chat_isOpen
    /\ chat_pending = {}

\* C13: a chat response that arrives while the panel is collapsed sets the
\* new-message indicator.
C13_CollapsedResponseSetsIndicator ==
    [][\A r \in chat_pending, o \in ChatOutcomes :
          (chat_sendSettled(r, o) /\ ~ChatFailed(o) /\ ~chat_isOpen) =>
             chat_hasNewResponse']_vars

\* C23: from the results view, reset clears analysisData, bloodReportData
\* and the error message, and the screen is back on the input view with an
\* empty upload session: no selected file, no extracted text, no editor.
C23_ResetReturnsToEmptyInput ==
    [][resetAnalysis =>
          /\ analysisData' = Null
          /\ bloodReportData' = Null
          /\ error' = ""
          /\ InputView'
          /\ fu_selectedFile' = Null
          /\ fu_extractedText' = <<>>
          /\ ~fu_showTextEditor']_vars

\* a blood report was analysed with the run's only request and New Analysis
\* was clicked: the input view is back, without error (a run whose only
\* request is over shows either a result or an error until a reset)
C23_Witness ==
    /\ InputView
    /\ ops = 1 /\ netCalls = 1 /\ pending = {}
    /\ error = ""
    /\ fu_selectedFile = Null /\ fu_extractedText = <<>> /\ ~fu_showTextEditor

\* the first request of an analysis submitted from either component settles
analysisFirstRequestSettled(r, o) ==
    fu_analysisStructuredSettled(r, o) \/ mi_analysisStructuredSettled(r, o)

\* C24 as stated: every submission of a text for analysis yields its own
\* structured-analysis request and its own ICD request.
C24_EverySubmissionBothRequests ==
    [][\A r \in pending, o \in StructuredOutcomes :
          analysisFirstRequestSettled(r, o) =>
             /\ netCalls' = netCalls + 1
             /\ \E q \in pending' : q.id = r.id /\ q.stage = "icd"]_vars

\* C24 as the code has it: every submission, whatever was submitted
\* before, issues its own structured-analysis request for the text on
\* screen, and every 2xx response to that request is followed by the
\* submission's own ICD request; when the structured-analysis request
\* fails, the submission ends without an ICD request.  Nothing is answered
\* from a cache and no two submissions share a request.
C24_NoCachingNoMerging ==
    [][/\ fu_handleAnalyze =>
              /\ netCalls' = netCalls + 1
              /\ \E q \in pending' :
                     /\ pending' = pending \cup {q} /\ q \notin pending
                     /\ q.stage = "structured" /\ q.text = fu_extractedText
       /\ mi_handleAnalyze =>
              /\ netCalls' = netCalls + 1
              /\ \E q \in pending' :
                     /\ pending' = pending \cup {q} /\ q \notin pending
                     /\ q.stage = "structured" /\ q.text = mi_inputText
       /\ \A r \in pending, o \in StructuredOutcomes :
              analysisFirstRequestSettled(r, o) =>
                 IF o.kind = "ok"
                 THEN /\ netCalls' = netCalls + 1
                      /\ \E q \in pending' : q.id = r.id /\ q.stage = "icd"
                 ELSE /\ netCalls' = netCalls
                      /\ \A q \in pending' : q.id # r.id]_vars

\* manual input: a first analysis failed at its ICD request, and the second
\* submission has issued its own two requests, four in all
C24_Witness ==
    /\ ops = 2 /\ netCalls = 4
    /\ error # ""
    /\ \E q \in pending :
          /\ q.comp = "manual" /\ q.id = 2 /\ q.stage = "icd"
          /\ q.live /\ q.text = mi_inputText

\* C25: while the review editor stays on screen, extractedText changes only
\* by the user's edit of the Textarea (start-over closes the editor): no
\* response of the backend changes the text under review.
C25_ReviewedTextOnlyEdited ==
    [][(fu_showTextEditor /\ fu_showTextEditor'
          /\ fu_extractedText' # fu_extractedText)
       => \E text \in Texts : fu_setExtractedText(text)]_vars

\* C26: a result appears only by the completion of a request that was
\* started after the last New Analysis; a request that was already pending
\* at a reset never populates analysisData or bloodReportData.
C26_NoResultFromBeforeReset ==
    [][(InputView /\ ~InputView')
       => \E r \in pending :
             /\ ~r.beforeReset
             /\ \A q \in pending' : q.id # r.id]_vars

\* the step starts the upload of `file`
fu_accepted(file) == \E q \in pending' \ pending : q.file = file

\* C28: both paths of document upload accept the same MIME types: for a
\* file within the size limit, the browse path accepts it exactly when the
\* drop path's type list has it, and the drop path accepts it exactly when
\* the browse path's type list has it.
C28_SameTypesBothPaths ==
    [][\A file \in Files :
          ~fu_sizeRejected(file) =>
             /\ fu_handleFileInputChange(file) =>
                   (fu_accepted(file) <=> file.type \in acceptedTypes)
             /\ fu_handleDrop(file) =>
                   (fu_accepted(file) <=> file.type \in allowedTypes)]_vars

\* C30: a step that starts a new operation (a file selection that passes
\* validation, or a submitted analysis: a new request is issued) leaves the
\* top-level error message empty.
C30_NewOperationClearsError ==
    [][(\E q \in pending' : \A r \in pending : r.id # q.id)
       => error' = ""]_vars

----------------------------------------------------------------------------
(* Properties of manual input *)

\* C15: every text change cancels the pending debounce timer and schedules
\* a new one, so one timer at most is pending, for the current text; a live
\* ICD lookup is started only by an expired timer, which has seen no text
\* change since it was set, and an expiry starts at most one lookup, with
\* one request, for the latest text.
C15_DebounceLatestOnly ==
    [][/\ \A text \in TypedTexts :
              mi_setInputText(text) =>
                 /\ mi_timers' = {text}
                 /\ mi_lookups' = mi_lookups
                 /\ netCalls' = netCalls
       /\ \A l \in mi_lookups' :
              (l.kind = "lookup" /\ \A k \in mi_lookups : k.id # l.id) =>
                 /\ mi_timers = {mi_inputText}
                 /\ mi_debounceFired(mi_inputText)
                 /\ l.text = mi_inputText
                 /\ mi_lookups' = mi_lookups \cup {l}
                 /\ netCalls' = netCalls + 1
                 /\ mi_timers' = {}]_vars

\* the timer of the text on screen has expired: no timer is pending and the
\* only lookup started carries that text
C15_Witness ==
    /\ Len(mi_inputText) >= minLookupLength
    /\ mi_timers = {}
    /\ mi_issued = 1
    /\ \E l \in mi_lookups :
          l.kind = "lookup" /\ l.live /\ l.text = mi_inputText

\* C16: a live-lookup response for a text that is no longer the current
\* input never changes the displayed ICD codes.
C16_StaleLookupIgnored ==
    [][\A l \in mi_lookups, o \in IcdOutcomes :
          (mi_updateIcdCodesSettled(l, o) /\ l.text # mi_inputText) =>
             mi_icdCodes' = mi_icdCodes]_vars

\* C17: no request carrying empty or whitespace-only text is sent to the
\* backend by analyze, Correct Text or the debounced ICD lookup.
C17_NoBlankTextSent ==
    /\ \A l \in mi_lookups : Trim(l.text) # <<>>
    /\ \A r \in pending : r.kind = "analyze" => Trim(r.text) # <<>>

\* C29: when a lookup (debounced or Correct Text) for the text now in the
\* editor completes successfully (both requests answered, success reported)
\* with an empty code list, the displayed ICD code list is empty afterwards.
C29_EmptyLookupClearsCodes ==
    [][\A l \in mi_lookups, o \in IcdOutcomes :
          (/\ mi_updateIcdCodesSettled(l, o) \/ mi_correctTextSettled(l, o)
           /\ l.live /\ l.text = mi_inputText
           /\ o.kind = "ok"
           /\ Truthy(analyzeText(l.data, o).value.success)
           /\ analyzeText(l.data, o).value.icd_codes = Arr(<<>>))
          => mi_icdCodes' = <<>>]_vars

----------------------------------------------------------------------------
(* Properties of the API adapter *)

\* the backend request failed: no response, or a response with a bad status
RequestFailed(o) == o.kind \in {"request", "response"}

\* the object of the error taxonomy: a message and a status
IsTaxonomyError(e) == {"message", "status"} \subseteq DOMAIN e

\* C18: every adapter call one of whose backend requests fails (no response,
\* or a response with a bad status) ends by throwing an error of the
\* taxonomy; none returns a normal value.
C18_FailedCallThrows ==
    (api_fn # "none"
        /\ \E k \in 1..Len(api_outcomes) : RequestFailed(api_outcomes[k])) =>
       (api_result.thrown /\ IsTaxonomyError(api_result.value))

\* the structured-analysis response was received and indicates failure
StructuredRejected(o) ==
    \/ o.kind = "response"
    \/ o.kind = "ok" /\ ~Truthy(Get(o.data, "success"))

\* the detail the backend gave with its rejection, if any
BackendDetail(o) ==
    IF o.kind = "response" THEN o.detail ELSE Get(o.data, "error")

\* C19: when the structured-analysis response is received but indicates
\* failure (success=false or a bad status), getMedicalAnalysis returns no
\* result: it throws an error whose message is the detail the backend
\* provided when there is one, else a generic fallback.
C19_RejectionCarriesDetail ==
    (api_fn = "getMedicalAnalysis" /\ StructuredRejected(api_outcomes[1])) =>
       /\ api_result.thrown
       /\ IF Truthy(BackendDetail(api_outcomes[1]))
          THEN api_result.value.message = BackendDetail(api_outcomes[1])
          ELSE api_result.value.message \in
                   {Str("An error occurred"), Str("Analysis failed")}

\* the BackendUnavailable error
BackendUnavailable(res) ==
    /\ res.thrown
    /\ res.value.status = 503
    /\ res.value.message =
           Str("Server not responding. Please try again later.")

\* C20: an adapter call one of whose requests gets no response fails with
\* the BackendUnavailable error (status 503, 'Server not responding'), and
\* a call fails with that error only when a request got no response.
C20_NoResponseIsUnavailable ==
    api_fn # "none" =>
       ((\E k \in 1..Len(api_outcomes) : api_outcomes[k].kind = "request")
           <=> BackendUnavailable(api_result))

\* field `field` of `data` when it is truthy, else `default`
FieldOr(data, field, default) ==
    IF Truthy(Get(data, field)) THEN Get(data, field) ELSE default

\* the request outcomes and the result describe a successful
\* getMedicalAnalysis call whose result merges both responses with defaults
MergedResult(outcomes, result) ==
    /\ Len(outcomes) = 2
    /\ outcomes[1].kind = "ok" /\ outcomes[2].kind = "ok"
    /\ result.primary_diagnosis =
           FieldOr(outcomes[1].data, "primary_diagnosis", Str(""))
    /\ result.prescribed_medication =
           FieldOr(outcomes[1].data, "prescribed_medication", Arr(<<>>))
    /\ result.followup_instructions =
           FieldOr(outcomes[1].data, "followup_instructions", Str(""))
    /\ result.medical_entities =
           FieldOr(outcomes[1].data, "medical_entities", Arr(<<>>))
    /\ result.icd_codes = FieldOr(outcomes[2].data, "icd_codes", Arr(<<>>))

\* C21 as stated: getMedicalAnalysis issues the ICD request only after the
\* structured-analysis response was received; a returned result takes its
\* diagnosis, medication, follow-up and entities from the structured
\* response and its icd_codes from the ICD response, with empty defaults,
\* and no field of it is undefined.
C21_MergedNoFieldUndefined ==
    api_fn = "getMedicalAnalysis" =>
       /\ Len(api_outcomes) = 2 => api_outcomes[1].kind = "ok"
       /\ ~api_result.thrown =>
              /\ MergedResult(api_outcomes, api_result.value)
              /\ \A f \in DOMAIN api_result.value \ {"t"} :
                     api_result.value[f].t # "undefined"

\* C21 as the code has it: the same, where the fields never undefined are
\* success, the four fields of the structured response and icd_codes; the
\* optional error field is the structured response's, absent or not.
C21_MergedWithDefaults ==
    api_fn = "getMedicalAnalysis" =>
       /\ Len(api_outcomes) = 2 => api_outcomes[1].kind = "ok"
       /\ ~api_result.thrown =>
              /\ MergedResult(api_outcomes, api_result.value)
              /\ \A f \in DOMAIN api_result.value \ {"t", "error"} :
                     api_result.value[f].t # "undefined"
              /\ api_result.value.error = Get(api_outcomes[1].data, "error")

\* a result was returned for a structured response without diagnosis,
\* medication or entities and an ICD response without codes
C21_Witness ==
    /\ api_fn = "getMedicalAnalysis"
    /\ ~api_result.thrown
    /\ api_outcomes[1].data = PartialStructuredData
    /\ Get(api_outcomes[2].data, "icd_codes") = Undefined
    /\ api_result.value.prescribed_medication = Arr(<<>>)
    /\ api_result.value.icd_codes = Arr(<<>>)

\* C22 as stated: for a 2xx chat response exposing a `message` field or a
\* `response` field, sendMessage returns a result whose message is that
\* text; only a response exposing neither field makes the call fail.
C22_EitherFieldAccepted ==
    (api_fn = "sendMessage" /\ api_outcomes[1].kind = "ok") =>
       LET data == api_outcomes[1].data IN
       IF Truthy(Get(data, "message")) \/ Truthy(Get(data, "response"))
       THEN /\ ~api_result.thrown
            /\ api_result.value.message \in
                   {Get(data, "message"), Get(data, "response")}
       ELSE api_result.thrown

\* C22 as the code has it: a response exposing `message` together with a
\* truthy `success` is returned as it is; otherwise one exposing `response`
\* is returned as {success: true, message: that text}; any other response
\* makes the call fail.
C22_ShapesNormalized ==
    (api_fn = "sendMessage" /\ api_outcomes[1].kind = "ok") =>
       LET data == api_outcomes[1].data IN
       IF Truthy(Get(data, "success")) /\ Truthy(Get(data, "message"))
       THEN api_result = Return(data)
       ELSE IF Truthy(Get(data, "response"))
       THEN /\ ~api_result.thrown
            /\ api_result.value.message = Get(data, "response")
            /\ api_result.value.success = [t |-> "bool", v |-> TRUE]
       ELSE api_result.thrown

\* a body exposing only `response` came back as a result with that message
C22_Witness ==
    /\ api_fn = "sendMessage"
    /\ api_outcomes[1].kind = "ok"
    /\ ~Truthy(Get(api_outcomes[1].data, "message"))
    /\ ~api_result.thrown
    /\ api_result.value.message = Text(<<"answer">>)

\* C27: at most one chat request is in flight, and after the greeting the
\* log alternates: user turns at the even positions, assistant turns (reply
\* or apology) at the odd ones, a request being in flight exactly while the
\* last turn is the user's.
C27_OneRequestAlternatingLog ==
    /\ Cardinality(chat_pending) <= 1
    /\ ~chat_messages[1].isUser
    /\ \A i \in 2..Len(chat_messages) :
          chat_messages[i].isUser <=> (i % 2 = 0)
    /\ (chat_pending # {}) <=> chat_messages[Len(chat_messages)].isUser

\* two exchanges are over, one answered by the backend and one by the apology
C27_Witness ==
    /\ Len(chat_messages) = 5
    /\ chat_pending = {}
    /\ \E i, j \in 2..5 :
          /\ ~chat_messages[i].isUser /\ chat_messages[i].text = apology
          /\ ~chat_messages[j].isUser /\ chat_messages[j].text # apology

====
